---- MODULE Spec2Model ----
(***************************************************************************)
(* Cross-context message delivery of the AI Document Agent extension:      *)
(* the popup-side Dispatcher (sendMessageToContentScript, in its probing   *)
(* 5-attempt form and its linear 3-attempt form), the ReadinessProbe       *)
(* (ensureContentScriptReady), the content-script listener and the         *)
(* background Coordinator (sendMessageWithRetry and the menu/key handlers, *)
(* showNotification, and the onMessage listener over the Settings record). *)
(* The popup's handleFunction and its status line sit on top of the        *)
(* Dispatcher.                                                             *)
(*                                                                         *)
(* Strings are sequences of string pieces, so that a template such as      *)
(* `Unknown action: ${action}` keeps its parts.  An absent optional field  *)
(* (undefined) is the empty sequence.                                      *)
(***************************************************************************)
EXTENDS Naturals, Sequences, FiniteSets

VARIABLES
  tab,          \* the active tab as the browser reports it
  env,          \* what a content script finds when it runs in the page
  listeners,    \* number of onMessage listeners alive in the page context
  flag,         \* window.AI_DOC_AGENT_LOADED in the page context
  navs,         \* navigations of the page so far
  chans,        \* per sender, its message in flight on the transport
  rxs,          \* per sender, what the listener did with its last request
  handlerRuns,  \* DocumentProcessor handler invocations so far
  variant,      \* which sendMessageToContentScript is running
  msg,          \* the Request of the current call
  dtab,         \* the tab object the call got from tabs.query
  pc,           \* position of the Dispatcher call
  attempt,      \* loop variable of the Dispatcher's retry loop
  log,          \* outcome of each transport attempt of the call
  sleeps,       \* backoff delays slept in the call
  ens,          \* the running ensureContentScriptReady call
  probes,       \* completed ensureContentScriptReady calls of the call
  injections,   \* executeScript({files}) attempts of the call
  result,       \* the Response returned by the call
  cvariant,     \* which background script is running
  cpc,          \* position of the Coordinator's trigger handler
  cmsg,         \* the Request of the Coordinator's trigger
  cattempt,     \* loop variable of sendMessageWithRetry
  clog,         \* outcome of each transport attempt of sendMessageWithRetry
  csleeps,      \* delays slept in sendMessageWithRetry
  cexecs,       \* chrome.scripting.executeScript calls of sendMessageWithRetry
  cresult,      \* what sendMessageWithRetry returned or threw
  notice,       \* the notification handed to showNotification
  shown,        \* what showNotification did with it
  atTrigger,    \* whether notifications were enabled when the trigger arrived
  atNotify,     \* whether they were when showNotification read the store
  store,        \* chrome.storage.local: the Settings record
  bg,           \* the request at the background onMessage listener
  processing,   \* the popup's `processing` state: the running action
  status,       \* the popup's `status` state, and the click it belongs to
  timers,       \* clicks whose 3-second status-clear timer is pending
  clicks        \* popup actions started so far

vars == <<tab, env, listeners, flag, navs, chans, rxs, handlerRuns, variant, msg,
          dtab, pc, attempt, log, sleeps, ens, probes, injections, result,
          cvariant, cpc, cmsg, cattempt, clog, csleeps, cexecs, cresult, notice,
          shown, atTrigger, atNotify, store, bg, processing, status, timers,
          clicks>>

pageVars == <<tab, env, listeners, flag, navs>>
dispVars == <<variant, msg, dtab, pc, attempt, log, sleeps, ens, probes, injections, result>>
coordVars == <<cvariant, cpc, cmsg, cattempt, clog, csleeps, cexecs, cresult, notice,
               shown, atTrigger, atNotify>>
bgVars == <<store, bg>>
uiVars == <<processing, status, timers, clicks>>

(***************************************************************************)
(* Bounds of the model.                                                    *)
(***************************************************************************)
MaxNavs == 2
MaxClicks == 2

(***************************************************************************)
(* Program constants.                                                      *)
(***************************************************************************)
ProbingMaxAttempts == 5
LinearMaxAttempts == 3
ReinjectAttempt == 2
BackoffCapMs == 2000
CoordMaxRetries == 3

(***************************************************************************)
(* Requests and Responses.                                                 *)
(***************************************************************************)
Absent == <<>>
Null == [null |-> TRUE]

Ok(m) == [success |-> TRUE, message |-> m, error |-> Absent]
Err(e) == [success |-> FALSE, message |-> Absent, error |-> e]

KnownActions ==
  {"ping", "summarize", "extract-text", "extract-images", "export-pdf",
   "export-markdown", "social-content"}
UnknownSample == {"bogus", "getSettings"}
MsgActions == KnownActions \cup UnknownSample

(***************************************************************************)
(* The tab.  A URL is a sequence of pieces; url = Absent is a tab whose    *)
(* url the extension may not read.                                         *)
(***************************************************************************)
StartsWith(u, p) == Len(p) <= Len(u) /\ SubSeq(u, 1, Len(p)) = p

RegularUrl == <<"https:", "//", "example.com">>
StoreUrl == <<"https:", "//", "chrome.google.com/webstore">>
Urls ==
  {RegularUrl, StoreUrl, Absent,
   <<"chrome:", "//", "extensions">>,
   <<"chrome-extension:", "//", "id/options.html">>,
   <<"moz-extension:", "//", "id/options.html">>,
   <<"about:", "blank">>}

\* the URLs the browser lets no extension script into
Protected(u) ==
  \/ StartsWith(u, <<"chrome:", "//">>)
  \/ StartsWith(u, <<"chrome-extension:", "//">>)
  \/ StartsWith(u, <<"moz-extension:", "//">>)
  \/ StartsWith(u, <<"about:">>)
  \/ u = StoreUrl

Tabs ==
  {t \in [hasId : BOOLEAN, status : {"complete", "loading"}, url : Urls,
          scriptable : BOOLEAN] :
     /\ Protected(t.url) => ~t.scriptable
     /\ ~t.hasId => (t.status = "complete" /\ t.url = Absent /\ ~t.scriptable)}

NoTab == [hasId |-> FALSE, status |-> "complete", url |-> Absent, scriptable |-> FALSE]

Envs == [runtime : {"ok", "idThrows", "absent"}, script : {"current", "earlier"}]

(***************************************************************************)
(* The content script.                                                     *)
(***************************************************************************)
\* initializeContentScript: the value it leaves in AI_DOC_AGENT_LOADED
InitializeContentScript(rt) ==
  CASE rt = "ok" -> "true"
    [] rt = "idThrows" -> "false"
    [] OTHER -> "false"

\* the flag after content.js has run at top level in a page whose flag was f
FlagAfterScript(e, f) ==
  IF e.script = "current" THEN InitializeContentScript(e.runtime) ELSE f

\* chrome.runtime.onMessage.addListener at top level: throws without a runtime
ListenersAfterScript(e, n) ==
  IF e.runtime = "absent" THEN n ELSE n + 1

\* content.js has already run in this page context
ScriptHasRun(f, n) == n >= 1 \/ f # "undefined"

\* what running content.js leaves in the page context.  In a context where it
\* has already run, the second run either executes again from the top or is
\* refused for redeclaring the script's top-level class and const, depending
\* on how the bundle wraps the file; a refused run changes nothing.
ScriptRuns(e, f, n) ==
  {[flag |-> FlagAfterScript(e, f), listeners |-> ListenersAfterScript(e, n)]}
    \cup (IF ScriptHasRun(f, n) THEN {[flag |-> f, listeners |-> n]} ELSE {})

HandlerActions == KnownActions \ {"ping"}
HandlerOutcomes == {"ok", "fail", "throwError", "throwEmpty", "throwOther"}

NotReadyResp ==
  Err(<<"Content script not ready. Please refresh the page and try again.">>)
PingResp == Ok(<<"Content script is ready">>)
\* mutant: the error does not name the action
UnknownActionRespNoName(a) == Err(<<"Unknown action">>)
UnknownActionResp(a) == Err(<<"Unknown action: ", a>>)

\* a DocumentProcessor method: its own Response, or what it throws
ProcessorResult(a, o) ==
  CASE o = "ok" -> Ok(<<a, " done">>)
    [] o = "fail" -> Err(<<"Failed: ", a>>)
    [] OTHER -> Null

\* the message of a thrown value, as the catch block of handleAsync reads it
CaughtMessage(o) ==
  CASE o = "throwError" -> <<"handler error">>
    [] o = "throwEmpty" -> <<"">>
    [] OTHER -> <<"Unknown error occurred">>

\* mutant: only a missing flag makes the listener refuse
ListenerRefusesUndefinedOnly(e, f) == e.script = "current" /\ f = "undefined"

\* the listener's readiness guard: TRUE when it answers not-ready
ListenerRefuses(e, f) == e.script = "current" /\ f # "true"

\* mutant: the switch without its 'ping' case
ListenerSwitchNoPing(e, a) ==
  IF a \in KnownActions \ {"ping"} THEN Null ELSE Err(<<"Unknown action: ", a>>)

\* the switch of handleAsync up to its first await:
\* the Response sent at once, or Null when a handler was started
ListenerSwitch(e, a) ==
  CASE a = "ping" /\ e.script = "current" -> PingResp
    [] a \in HandlerActions -> Null
    [] OTHER -> UnknownActionResp(a)

\* what one listener does on receiving a Request with the flag at f
ListenerReceive(e, f, a) ==
  IF ListenerRefuses(e, f)
  THEN [resp |-> NotReadyResp, handler |-> FALSE]
  ELSE [resp |-> ListenerSwitch(e, a), handler |-> ListenerSwitch(e, a) = Null]

\* mutant: handleAsync without its catch block
ListenerSettleNoCatch(a, o) == ProcessorResult(a, o)

\* the Response sent when the started handler settles with outcome o
ListenerSettle(a, o) ==
  IF o \in {"ok", "fail"} THEN ProcessorResult(a, o) ELSE Err(CaughtMessage(o))

NoRx == [flag |-> "undefined", action |-> "none", ran |-> 0, outcome |-> "none",
         resp |-> Null]
NoChan == [st |-> "none", action |-> "none", resp |-> Null]

\* the two callers of chrome.tabs.sendMessage: sendMessageToContentScript
\* and the background script; each call has its own promise
Senders == {"disp", "coord"}
chan == chans["disp"]
cchan == chans["coord"]
lastRx == rxs["disp"]

(***************************************************************************)
(* The page and the transport.                                             *)
(***************************************************************************)
\* the page is reloaded or navigates: its context and the channels die
Navigate ==
  /\ navs < MaxNavs
  /\ tab.hasId
  /\ navs' = navs + 1
  /\ tab' = [tab EXCEPT !.status = "loading"]
  /\ listeners' = 0
  /\ flag' = "undefined"
  /\ chans' = [w \in Senders |->
                 IF chans[w].st \in {"pending", "handling"}
                 THEN [chans[w] EXCEPT !.st = "rejected"] ELSE chans[w]]
  /\ UNCHANGED <<env, rxs, handlerRuns, dispVars, coordVars, bgVars, uiVars>>

\* the page finishes loading; the declared content script runs in it
PageLoad ==
  /\ tab.status = "loading"
  /\ tab' = [tab EXCEPT !.status = "complete"]
  /\ IF tab.scriptable
     THEN \E o \in ScriptRuns(env, flag, listeners) :
            flag' = o.flag /\ listeners' = o.listeners
     ELSE UNCHANGED <<flag, listeners>>
  /\ UNCHANGED <<env, navs, chans, rxs, handlerRuns, dispVars, coordVars, bgVars, uiVars>>

\* chrome.tabs.sendMessage finds no listener in the tab
TransportNoReceiver ==
  /\ listeners = 0
  /\ \E w \in Senders :
       /\ chans[w].st = "pending"
       /\ chans' = [chans EXCEPT ![w].st = "rejected"]
  /\ UNCHANGED <<pageVars, rxs, handlerRuns, dispVars, coordVars, bgVars, uiVars>>

\* the platform settles the call with no value although a listener is alive
TransportEmpty ==
  /\ listeners >= 1
  /\ \E w \in Senders :
       /\ chans[w].st = "pending"
       /\ chans' = [chans EXCEPT ![w].st = "empty"]
  /\ UNCHANGED <<pageVars, rxs, handlerRuns, dispVars, coordVars, bgVars, uiVars>>

\* the Request reaches the page: every live listener runs on it
TransportDeliver ==
  /\ listeners >= 1
  /\ \E w \in Senders :
       /\ chans[w].st = "pending"
       /\ LET r == ListenerReceive(env, flag, chans[w].action) IN
            /\ chans' = IF r.handler THEN [chans EXCEPT ![w].st = "handling"]
                        ELSE [chans EXCEPT ![w].st = "response", ![w].resp = r.resp]
            /\ handlerRuns' = IF r.handler THEN handlerRuns + listeners
                              ELSE handlerRuns
            /\ rxs' = [rxs EXCEPT ![w] =
                         [flag |-> flag, action |-> chans[w].action,
                          ran |-> IF r.handler THEN listeners ELSE 0,
                          outcome |-> IF r.handler THEN "pending" ELSE "none",
                          resp |-> r.resp]]
  /\ UNCHANGED <<pageVars, dispVars, coordVars, bgVars, uiVars>>

\* the handler settles and handleAsync calls its request's sendResponse
HandlerSettle ==
  /\ \E w \in Senders, o \in HandlerOutcomes :
       /\ chans[w].st = "handling"
       /\ LET r == ListenerSettle(chans[w].action, o) IN
            /\ chans' = [chans EXCEPT ![w].st = "response", ![w].resp = r]
            /\ rxs' = [rxs EXCEPT ![w].outcome = o, ![w].resp = r]
  /\ UNCHANGED <<pageVars, handlerRuns, dispVars, coordVars, bgVars, uiVars>>

(***************************************************************************)
(* chrome.scripting.executeScript against the tab.                         *)
(***************************************************************************)
ExecScriptThrows == ~tab.scriptable

\* func: () => typeof window.AI_DOC_AGENT_LOADED !== 'undefined'
FlagProbe(f) == f # "undefined"

(***************************************************************************)
(* The Dispatcher: sendMessageToContentScript.                             *)
(***************************************************************************)
Variants == {"probing", "linear"}

MaxAttempts(v) == IF v = "probing" THEN ProbingMaxAttempts ELSE LinearMaxAttempts

Min(a, b) == IF a <= b THEN a ELSE b

\* mutant: a one-second base and no ceiling
BackoffMsUncapped(v, n) ==
  IF v = "probing" THEN 1000 * 2 ^ (n - 1) ELSE 100 * n * n

\* the delay slept after failed attempt n
BackoffMs(v, n) ==
  IF v = "probing" THEN Min(100 * 2 ^ (n - 1), BackoffCapMs) ELSE 100 * n * n

NoTabErr == Err(<<"No active tab found">>)
LoadingErr ==
  Err(<<"Page is still loading. Please wait for the page to fully load.">>)
RestrictedErr ==
  Err(<<"This extension cannot run on system pages. Please navigate to a regular website.">>)
NotReadyErr ==
  Err(<<"Unable to initialize extension on this page. Please refresh and try again.">>)
NoResponseErr == Err(<<"No response from content script">>)
UnableErr(v) ==
  IF v = "probing"
  THEN Err(<<"Unable to connect to the page. The page may not support this extension or needs to be refreshed.">>)
  ELSE Err(<<"Unable to connect to the page. Please refresh the page and try again.">>)

\* the restricted-page test of the probing Dispatcher
IsRestricted(u) ==
  \/ StartsWith(u, <<"chrome:", "//">>)
  \/ StartsWith(u, <<"chrome-extension:", "//">>)
  \/ StartsWith(u, <<"moz-extension:", "//">>)
  \/ StartsWith(u, <<"about:">>)

\* mutant: the pre-flight checks without the restricted-page test
PreflightNoRestricted(v, t) ==
  CASE ~t.hasId -> NoTabErr
    [] t.status # "complete" -> LoadingErr
    [] OTHER -> Null

\* the checks between tabs.query and the first await that follows:
\* the Response they end the call with, or Null to go on
Preflight(v, t) ==
  CASE ~t.hasId -> NoTabErr
    [] t.status # "complete" -> LoadingErr
    [] v = "probing" /\ IsRestricted(t.url) -> RestrictedErr
    [] OTHER -> Null

\* mutant: a success=false Response is replaced by the fallback
ReturnedDropsFailure(r) == IF r = Null \/ ~r.success THEN NoResponseErr ELSE r

\* mutant: no fallback for a missing value
ReturnedAsIs(r) == r

\* `response || {...}`: what the call returns for a settled transport value
Returned(r) == IF r = Null THEN NoResponseErr ELSE r

\* mutant: the loop gives up one attempt early
RetryAfterStopsEarly(v, n) == n < MaxAttempts(v) - 1

\* the retry decision after failed attempt n: TRUE to sleep and go on
RetryAfter(v, n) == n < MaxAttempts(v)

\* mutant: the re-injection follows every failed attempt from the second on
ReinjectAfterEvery(v, n) == v = "probing" /\ n >= ReinjectAttempt

\* mutant: the re-injection follows the third failed attempt
ReinjectAfterThird(v, n) == v = "probing" /\ n = ReinjectAttempt + 1

\* whether the forced re-injection follows the sleep after failed attempt n
ReinjectAfter(v, n) == v = "probing" /\ n = ReinjectAttempt

pageFrame == UNCHANGED <<pageVars, chans, rxs, handlerRuns>>
coordFrame == UNCHANGED <<coordVars, bgVars, uiVars>>

\* a caller invokes sendMessageToContentScript(message): await tabs.query
Send ==
  /\ pc = "idle"
  /\ \E a \in MsgActions, v \in Variants :
       /\ msg' = a
       /\ variant' = v
  /\ pc' = "query"
  /\ UNCHANGED <<dtab, attempt, log, sleeps, ens, probes, injections, result>>
  /\ pageFrame /\ coordFrame

\* mutant: sendMessageToContentScript without its outer try/catch: the
\* errors thrown before the loop leave the call with no Response
FinishUncaught(r) ==
  /\ pc' = "done"
  /\ result' = IF r \in {NoTabErr, LoadingErr} THEN Null ELSE r

\* the call returns r: a `return` of the body, or the outer catch turning a
\* thrown Error into {success: false, error: error.message}
Finish(r) == pc' = "done" /\ result' = r

\* tabs.query resolved: the pre-flight checks
Query ==
  /\ pc = "query"
  /\ dtab' = tab
  /\ IF Preflight(variant, tab) # Null
     THEN Finish(Preflight(variant, tab)) /\ UNCHANGED <<attempt, ens>>
     ELSE IF variant = "probing"
          THEN pc' = "ens_check" /\ ens' = [force |-> FALSE]
               /\ UNCHANGED <<attempt, result>>
          ELSE pc' = "send" /\ attempt' = 1 /\ UNCHANGED <<ens, result>>
  /\ UNCHANGED <<variant, msg, log, sleeps, probes, injections>>
  /\ pageFrame /\ coordFrame

\* mutant: a failed pre-flight probe is tried again
EnsureReturnRetries(b) ==
  /\ probes' = Append(probes, [force |-> ens.force, ready |-> b, navs |-> navs,
                               listeners |-> listeners, flag |-> flag])
  /\ IF ens.force
     THEN pc' = "send" /\ attempt' = attempt + 1
     ELSE IF b THEN pc' = "send" /\ attempt' = 1
          ELSE pc' = "ens_check" /\ UNCHANGED attempt
  /\ UNCHANGED result

\* mutant: the pre-flight result is not consulted
EnsureReturnIgnored(b) ==
  /\ probes' = Append(probes, [force |-> ens.force, ready |-> b, navs |-> navs,
                               listeners |-> listeners, flag |-> flag])
  /\ pc' = "send"
  /\ attempt' = IF ens.force THEN attempt + 1 ELSE 1
  /\ UNCHANGED result

\* mutant: a failed forced re-injection ends the call like a failed pre-flight
EnsureReturnForcedConsulted(b) ==
  /\ probes' = Append(probes, [force |-> ens.force, ready |-> b, navs |-> navs,
                               listeners |-> listeners, flag |-> flag])
  /\ IF b
     THEN /\ pc' = "send"
          /\ attempt' = IF ens.force THEN attempt + 1 ELSE 1
          /\ UNCHANGED result
     ELSE Finish(NotReadyErr) /\ UNCHANGED attempt

\* ensureContentScriptReady returns b to the Dispatcher
EnsureReturn(b) ==
  /\ probes' = Append(probes, [force |-> ens.force, ready |-> b, navs |-> navs,
                               listeners |-> listeners, flag |-> flag])
  /\ IF ens.force
     THEN pc' = "send" /\ attempt' = attempt + 1 /\ UNCHANGED result
     ELSE IF b THEN pc' = "send" /\ attempt' = 1 /\ UNCHANGED result
          ELSE Finish(NotReadyErr) /\ UNCHANGED attempt

\* ensureContentScriptReady, forceInject = false: is the flag already there?
EnsureCheck ==
  /\ pc = "ens_check"
  /\ IF ~ExecScriptThrows /\ FlagProbe(flag)
     THEN EnsureReturn(TRUE)
     ELSE pc' = "ens_inject" /\ UNCHANGED <<attempt, probes, result>>
  /\ UNCHANGED <<variant, msg, dtab, log, sleeps, ens, injections>>
  /\ pageFrame /\ coordFrame

\* what the outer catch of sendMessageToContentScript would return for an
\* error thrown by chrome.scripting
ScriptingErr == Err(<<"Cannot access contents of the page">>)

\* mutant: ensureContentScriptReady without its outer try/catch
InjectErrorEscapes == FALSE

\* the outer try/catch of ensureContentScriptReady turns a failed injection
\* into `return false`
InjectErrorCaught == TRUE

\* ensureContentScriptReady: executeScript({files: ['content.js']})
EnsureInject ==
  /\ pc = "ens_inject"
  /\ injections' = injections + 1
  /\ IF ExecScriptThrows
     THEN /\ IF InjectErrorCaught
             THEN EnsureReturn(FALSE)
             ELSE Finish(ScriptingErr) /\ UNCHANGED <<attempt, probes>>
          /\ UNCHANGED <<flag, listeners>>
     ELSE /\ pc' = "ens_settle"
          /\ \E o \in ScriptRuns(env, flag, listeners) :
               flag' = o.flag /\ listeners' = o.listeners
          /\ UNCHANGED <<attempt, probes, result>>
  /\ UNCHANGED <<variant, msg, dtab, log, sleeps, ens>>
  /\ UNCHANGED <<tab, env, navs, chans, rxs, handlerRuns>> /\ coordFrame

\* ensureContentScriptReady: the 100 ms wait for the script to initialize
EnsureSettle ==
  /\ pc = "ens_settle"
  /\ pc' = "ens_verify"
  /\ UNCHANGED <<variant, msg, dtab, attempt, log, sleeps, ens, probes, injections, result>>
  /\ pageFrame /\ coordFrame

\* ensureContentScriptReady: verify the flag after injection
EnsureVerify ==
  /\ pc = "ens_verify"
  /\ EnsureReturn(~ExecScriptThrows /\ FlagProbe(flag))
  /\ UNCHANGED <<variant, msg, dtab, log, sleeps, ens, injections>>
  /\ pageFrame /\ coordFrame

\* one transport attempt: chrome.tabs.sendMessage(tab.id, message)
Transport ==
  /\ pc = "send"
  /\ chan.st = "none"
  /\ chans' = [chans EXCEPT !["disp"] =
                 [st |-> "pending", action |-> msg, resp |-> Null]]
  /\ pc' = "await"
  /\ UNCHANGED <<variant, msg, dtab, attempt, log, sleeps, ens, probes, injections, result>>
  /\ UNCHANGED <<pageVars, rxs, handlerRuns>> /\ coordFrame

\* the attempt resolved with a value (or with nothing): return
Resolved ==
  /\ pc = "await"
  /\ chan.st \in {"response", "empty"}
  /\ log' = Append(log, chan.st)
  /\ Finish(Returned(chan.resp))
  /\ chans' = [chans EXCEPT !["disp"] = NoChan]
  /\ UNCHANGED <<variant, msg, dtab, attempt, sleeps, ens, probes, injections>>
  /\ UNCHANGED <<pageVars, rxs, handlerRuns>> /\ coordFrame

\* the attempt rejected: the catch block of the loop
Rejected ==
  /\ pc = "await"
  /\ chan.st = "rejected"
  /\ log' = Append(log, "rejected")
  /\ chans' = [chans EXCEPT !["disp"] = NoChan]
  /\ IF RetryAfter(variant, attempt)
     THEN pc' = "sleep" /\ UNCHANGED result
     ELSE Finish(UnableErr(variant))
  /\ UNCHANGED <<variant, msg, dtab, attempt, sleeps, ens, probes, injections>>
  /\ UNCHANGED <<pageVars, rxs, handlerRuns>> /\ coordFrame

\* the backoff sleep is over: re-inject after the designated attempt, go on
Backoff ==
  /\ pc = "sleep"
  /\ sleeps' = Append(sleeps, BackoffMs(variant, attempt))
  /\ IF ReinjectAfter(variant, attempt)
     THEN pc' = "ens_inject" /\ ens' = [force |-> TRUE] /\ UNCHANGED attempt
     ELSE pc' = "send" /\ attempt' = attempt + 1 /\ UNCHANGED ens
  /\ UNCHANGED <<variant, msg, dtab, log, probes, injections, result>>
  /\ pageFrame /\ coordFrame

(***************************************************************************)
(* The Coordinator: the menu and key-command handlers of the background    *)
(* script, with sendMessageWithRetry ("retry") or with a bare              *)
(* chrome.tabs.sendMessage ("direct").                                      *)
(***************************************************************************)
CoordVariants == {"retry", "direct"}

ContextMenuIds ==
  {"summarize", "extract-text", "extract-images", "separator1", "export-pdf",
   "export-markdown", "separator2", "social-content"}
MenuClicks == ContextMenuIds \cup {"foreign-item"}
Commands == {"_execute_action", "summarize", "extract-text", "foreign-command"}

\* the action a trigger dispatches, or "none" when its handler returns at once
TriggerAction(src, id) ==
  IF src = "menu"
  THEN IF id \in ContextMenuIds THEN id ELSE "none"
  ELSE IF id \in {"summarize", "extract-text"} THEN id ELSE "none"

\* the delay slept after failed attempt n of sendMessageWithRetry
CoordBackoffMs(n) == 200 * n

\* the defaults written by the onInstalled listener
DefaultSettings ==
  [aiProvider |-> "openai", apiKey |-> "", model |-> "gpt-3.5-turbo",
   summaryLength |-> "medium", autoSave |-> TRUE, showNotifications |-> TRUE]

\* the whole options object, as the options page saves it
OptionsSample ==
  [DefaultSettings EXCEPT !.aiProvider = "anthropic", !.apiKey = "sk-1"]

\* message.data of the saveSettings requests considered
SettingsWrites ==
  {[model |-> "gpt-4"], [showNotifications |-> FALSE], OptionsSample}

\* mutant: a write that replaces the record
StorageSetReplaces(s, d) == d

\* chrome.storage.local.set(d): the keys of d are written, the others kept
StorageSet(s, d) ==
  [k \in DOMAIN s \cup DOMAIN d |-> IF k \in DOMAIN d THEN d[k] ELSE s[k]]

\* `result.showNotifications !== false`
NotificationsEnabled(s) ==
  ~("showNotifications" \in DOMAIN s /\ s.showNotifications = FALSE)

\* mutant: the setting as it was when the trigger arrived decides
ShowDecisionAtTrigger(trig, now) == trig

\* showNotification reads the setting itself, when it runs
ShowDecision(trig, now) == now

NoNotice == [title |-> Absent, message |-> Absent]
Notice(t, m) == [title |-> <<t>>, message |-> m]

\* `a || b` on strings: an absent or empty a gives b
OrElse(a, b) == IF a = Absent \/ a = <<"">> THEN b ELSE a

CaughtNotice(cv) ==
  IF cv = "retry"
  THEN Notice("Error", <<"Failed to execute action. Make sure the page is loaded.">>)
  ELSE Notice("Error", <<"Failed to execute action">>)

\* the notification for the value sendMessage resolved with (Null: undefined)
ResponseNotice(r) ==
  IF r # Null /\ r.success
  THEN Notice("Success", OrElse(r.message, <<"Action completed">>))
  ELSE Notice("Error", OrElse(IF r = Null THEN Absent ELSE r.error, <<"Action failed">>))

dispFrame == UNCHANGED <<dispVars, bgVars, uiVars>>

\* a menu click or a key command arrives at its handler
Trigger ==
  /\ cpc = "idle"
  /\ \E cv \in CoordVariants, src \in {"menu", "command"} :
     \E id \in IF src = "menu" THEN MenuClicks ELSE Commands :
       /\ cvariant' = cv
       /\ cmsg' = TriggerAction(src, id)
       /\ IF ~tab.hasId \/ TriggerAction(src, id) = "none"
          THEN cpc' = "done" /\ cattempt' = cattempt /\ chans' = chans
          ELSE IF cv = "retry"
               THEN cpc' = "get" /\ cattempt' = 1 /\ chans' = chans
               ELSE /\ cpc' = "await" /\ cattempt' = 1
                    /\ chans' = [chans EXCEPT !["coord"] =
                                   [st |-> "pending",
                                    action |-> TriggerAction(src, id),
                                    resp |-> Null]]
  /\ atTrigger' = NotificationsEnabled(store)
  /\ UNCHANGED <<clog, csleeps, cexecs, cresult, notice, shown, atNotify>>
  /\ UNCHANGED <<pageVars, rxs, handlerRuns>> /\ dispFrame

\* mutant: the retry decision reads the attempt counter of the other call
CoordCatchSharedCounter ==
  IF attempt = CoordMaxRetries
  THEN /\ cpc' = "notify"
       /\ cresult' = [threw |-> TRUE, resp |-> Null]
       /\ notice' = CaughtNotice("retry")
  ELSE /\ cpc' = "sleep"
       /\ UNCHANGED <<cresult, notice>>

\* the catch block of sendMessageWithRetry after failed attempt n
CoordCatch ==
  IF cattempt = CoordMaxRetries
  THEN /\ cpc' = "notify"
       /\ cresult' = [threw |-> TRUE, resp |-> Null]
       /\ notice' = CaughtNotice("retry")
  ELSE /\ cpc' = "sleep"
       /\ UNCHANGED <<cresult, notice>>

\* sendMessageWithRetry: chrome.tabs.get and the status check of one attempt
CoordGet ==
  /\ cpc = "get"
  /\ IF tab.status # "complete"
     THEN CoordCatch
     ELSE /\ cpc' = IF cattempt = 1 THEN "probe" ELSE "send"
          /\ UNCHANGED <<cresult, notice>>
  /\ UNCHANGED <<shown, atTrigger, atNotify>>
  /\ UNCHANGED <<cvariant, cmsg, cattempt, clog, csleeps, cexecs>>
  /\ pageFrame /\ dispFrame

\* sendMessageWithRetry, first attempt: executeScript reading the flag;
\* its result is dropped and its failure ignored
CoordProbe ==
  /\ cpc = "probe"
  /\ cexecs' = cexecs + 1
  /\ cpc' = "send"
  /\ UNCHANGED <<shown, atTrigger, atNotify>>
  /\ UNCHANGED <<cvariant, cmsg, cattempt, clog, csleeps, cresult, notice>>
  /\ pageFrame /\ dispFrame

\* sendMessageWithRetry: chrome.tabs.sendMessage(tabId, message)
CoordTransport ==
  /\ cpc = "send"
  /\ cchan.st = "none"
  /\ chans' = [chans EXCEPT !["coord"] =
                 [st |-> "pending", action |-> cmsg, resp |-> Null]]
  /\ cpc' = "await"
  /\ UNCHANGED <<shown, atTrigger, atNotify>>
  /\ UNCHANGED <<cvariant, cmsg, cattempt, clog, csleeps, cexecs, cresult, notice>>
  /\ UNCHANGED <<pageVars, rxs, handlerRuns>> /\ dispFrame

\* sendMessage resolved: the handler turns the value into a notification
CoordResolved ==
  /\ cpc = "await"
  /\ cchan.st \in {"response", "empty"}
  /\ clog' = Append(clog, cchan.st)
  /\ cresult' = [threw |-> FALSE, resp |-> cchan.resp]
  /\ notice' = ResponseNotice(cchan.resp)
  /\ cpc' = "notify"
  /\ chans' = [chans EXCEPT !["coord"] = NoChan]
  /\ UNCHANGED <<cvariant, cmsg, cattempt, csleeps, cexecs, shown, atTrigger, atNotify>>
  /\ UNCHANGED <<pageVars, rxs, handlerRuns>> /\ dispFrame

\* sendMessage rejected
CoordRejected ==
  /\ cpc = "await"
  /\ cchan.st = "rejected"
  /\ clog' = Append(clog, "rejected")
  /\ chans' = [chans EXCEPT !["coord"] = NoChan]
  /\ IF cvariant = "retry"
     THEN CoordCatch
     ELSE /\ cpc' = "notify"
          /\ cresult' = [threw |-> TRUE, resp |-> Null]
          /\ notice' = CaughtNotice("direct")
  /\ UNCHANGED <<cvariant, cmsg, cattempt, csleeps, cexecs, shown, atTrigger, atNotify>>
  /\ UNCHANGED <<pageVars, rxs, handlerRuns>> /\ dispFrame

\* sendMessageWithRetry: the wait before the next attempt
CoordBackoff ==
  /\ cpc = "sleep"
  /\ csleeps' = Append(csleeps, CoordBackoffMs(cattempt))
  /\ cattempt' = cattempt + 1
  /\ cpc' = "get"
  /\ UNCHANGED <<shown, atTrigger, atNotify>>
  /\ UNCHANGED <<cvariant, cmsg, clog, cexecs, cresult, notice>>
  /\ pageFrame /\ dispFrame

\* showNotification(title, message): storage.local.get('showNotifications'),
\* then chrome.notifications.create unless the setting is false; a failed
\* read is logged and nothing is shown
Notify ==
  /\ cpc = "notify"
  /\ \E ok \in BOOLEAN :
       IF ok
       THEN /\ atNotify' = NotificationsEnabled(store)
            /\ shown' = IF ShowDecision(atTrigger, NotificationsEnabled(store))
                        THEN "created" ELSE "suppressed"
       ELSE /\ shown' = "failed"
            /\ UNCHANGED atNotify
  /\ cpc' = "done"
  /\ UNCHANGED <<cvariant, cmsg, cattempt, clog, csleeps, cexecs, cresult, notice,
                 atTrigger>>
  /\ pageFrame /\ dispFrame

(***************************************************************************)
(* The background onMessage listener and the Settings record.              *)
(***************************************************************************)
NoBg == [st |-> "none", action |-> "none", data |-> Null, resp |-> Null]
BgActions == {"getSettings", "saveSettings", "summarize"}
SettingsResp(s) ==
  [success |-> TRUE, message |-> Absent, error |-> Absent, data |-> s]
SavedResp == Ok(<<"Settings saved">>)
StorageErrResp == Err(<<"QUOTA_BYTES quota exceeded">>)
UnknownBgResp == Err(<<"Unknown action">>)

bgFrame ==
  UNCHANGED <<pageVars, chans, rxs, handlerRuns, dispVars, coordVars, uiVars>>

\* a message arrives at the listener; getSettings and saveSettings start the
\* storage call and return true, any other action is answered at once;
\* storage.local.set(undefined) throws before any Response is sent
BgReceive ==
  /\ bg.st # "pending"
  /\ \E a \in BgActions, d \in SettingsWrites \cup {Null} :
       /\ a # "saveSettings" => d = Null
       /\ bg' = [st |-> IF a = "getSettings" THEN "pending"
                       ELSE IF a = "saveSettings"
                            THEN IF d = Null THEN "threw" ELSE "pending"
                            ELSE "answered",
                 action |-> a, data |-> d,
                 resp |-> IF a \in {"getSettings", "saveSettings"}
                          THEN Null ELSE UnknownBgResp]
  /\ UNCHANGED store
  /\ bgFrame

\* the storage call settles and the listener's then/catch calls sendResponse
BgStorageSettle ==
  /\ bg.st = "pending"
  /\ \E ok \in BOOLEAN :
       IF bg.action = "getSettings"
       THEN /\ bg' = [bg EXCEPT !.st = "answered",
                                !.resp = IF ok THEN SettingsResp(store)
                                         ELSE StorageErrResp]
            /\ UNCHANGED store
       ELSE /\ store' = IF ok THEN StorageSet(store, bg.data) ELSE store
            /\ bg' = [bg EXCEPT !.st = "answered",
                                !.resp = IF ok THEN SavedResp ELSE StorageErrResp]
  /\ bgFrame

\* chrome.runtime.onInstalled (install, extension update, browser update):
\* the six defaults are written
OnInstalled ==
  /\ \E ok \in BOOLEAN :
       store' = IF ok THEN StorageSet(store, DefaultSettings) ELSE store
  /\ UNCHANGED bg
  /\ bgFrame

(***************************************************************************)
(* The popup: handleFunction and its status line.                          *)
(***************************************************************************)
PopupFunctions == {"summarize", "extract-text"}
Title(a) == IF a = "summarize" THEN "Summarizing document" ELSE "Extracting text"
\* title.toLowerCase()
LowerTitle(a) ==
  IF a = "summarize" THEN "summarizing document" ELSE "extracting text"

NoStatus == [type |-> "null", message |-> <<"">>, of |-> 0]

\* the status set from the Response of sendMessageToContentScript
ResponseStatus(r, a) ==
  IF r.success
  THEN [type |-> "success", message |-> OrElse(r.message, <<Title(a), " completed!">>)]
  ELSE [type |-> "error", message |-> OrElse(r.error, <<"Failed to ", LowerTitle(a)>>)]

\* handleFunction(action, title) up to its await: nothing while an action is
\* processing, else the processing status and the call of
\* sendMessageToContentScript
PopupClick ==
  /\ clicks < MaxClicks
  /\ \E a \in PopupFunctions, v \in Variants :
       IF processing # "none"
       THEN UNCHANGED <<uiVars, dispVars>>
       ELSE /\ pc = "idle"
            /\ processing' = a
            /\ clicks' = clicks + 1
            /\ status' = [type |-> "processing", message |-> <<Title(a), "...">>,
                          of |-> clicks + 1]
            /\ msg' = a
            /\ variant' = v
            /\ pc' = "query"
            /\ UNCHANGED <<timers, dtab, attempt, log, sleeps, ens, probes,
                           injections, result>>
  /\ pageFrame
  /\ UNCHANGED <<coordVars, bgVars>>

\* the call returned: the result status, then `finally` clears `processing`
\* and schedules the timer that clears the status 3 seconds later
PopupSettle ==
  /\ processing # "none"
  /\ pc = "done"
  /\ status' = [type |-> ResponseStatus(result, processing).type,
                message |-> ResponseStatus(result, processing).message,
                of |-> clicks]
  /\ processing' = "none"
  /\ timers' = timers \cup {clicks}
  /\ UNCHANGED clicks
  /\ variant' = "probing" /\ msg' = "none" /\ dtab' = NoTab /\ pc' = "idle"
  /\ attempt' = 0 /\ log' = <<>> /\ sleeps' = <<>> /\ ens' = [force |-> FALSE]
  /\ probes' = <<>> /\ injections' = 0 /\ result' = Null
  /\ pageFrame
  /\ UNCHANGED <<coordVars, bgVars>>

\* a timer fires: setStatus({type: null, message: ''})
PopupTimer ==
  /\ \E n \in timers :
       /\ timers' = timers \ {n}
       /\ status' = NoStatus
  /\ UNCHANGED <<processing, clicks>>
  /\ pageFrame
  /\ UNCHANGED <<dispVars, coordVars, bgVars>>

(***************************************************************************)
(* Specifications.                                                         *)
(***************************************************************************)
PageInit ==
  /\ tab \in Tabs
  /\ env \in Envs
  /\ navs = 0
  /\ \E loaded \in BOOLEAN :
       /\ loaded => (tab.status = "complete" /\ tab.scriptable)
       /\ flag = IF loaded THEN FlagAfterScript(env, "undefined") ELSE "undefined"
       /\ listeners = IF loaded THEN ListenersAfterScript(env, 0) ELSE 0
  /\ chans = [w \in Senders |-> NoChan]
  /\ rxs = [w \in Senders |-> NoRx]
  /\ handlerRuns = 0

DispInit ==
  /\ variant = "probing"
  /\ msg = "none"
  /\ dtab = NoTab
  /\ pc = "idle"
  /\ attempt = 0
  /\ log = <<>>
  /\ sleeps = <<>>
  /\ ens = [force |-> FALSE]
  /\ probes = <<>>
  /\ injections = 0
  /\ result = Null

CoordInit ==
  /\ cvariant = "retry"
  /\ cpc = "idle"
  /\ cmsg = "none"
  /\ cattempt = 0
  /\ clog = <<>>
  /\ csleeps = <<>>
  /\ cexecs = 0
  /\ cresult = [threw |-> FALSE, resp |-> Null]
  /\ notice = NoNotice
  /\ shown = "none"
  /\ atTrigger = TRUE
  /\ atNotify = TRUE

\* the extension is installed: onInstalled has written the defaults
BgInit ==
  /\ store = DefaultSettings
  /\ bg = NoBg

UiInit ==
  /\ processing = "none"
  /\ status = NoStatus
  /\ timers = {}
  /\ clicks = 0

Init == PageInit /\ DispInit /\ CoordInit /\ BgInit /\ UiInit

PageNext ==
  \/ Navigate
  \/ PageLoad
  \/ TransportNoReceiver
  \/ TransportEmpty
  \/ TransportDeliver
  \/ HandlerSettle

\* one sendMessageToContentScript call against the page
Next ==
  \/ PageNext
  \/ Send
  \/ Query
  \/ EnsureCheck
  \/ EnsureInject
  \/ EnsureSettle
  \/ EnsureVerify
  \/ Transport
  \/ Resolved
  \/ Rejected
  \/ Backoff

Spec == Init /\ [][Next]_vars

\* every chrome.* call of the running send, and the page's handling of its
\* Request, eventually settles
Progress ==
  \/ Query
  \/ EnsureCheck
  \/ EnsureInject
  \/ EnsureSettle
  \/ EnsureVerify
  \/ Transport
  \/ Resolved
  \/ Rejected
  \/ Backoff
  \/ TransportNoReceiver
  \/ TransportDeliver
  \/ HandlerSettle

SpecLive == Init /\ [][Next]_vars /\ WF_vars(Progress)

\* one Coordinator trigger against the page
NextCoord ==
  \/ PageNext
  \/ Trigger
  \/ CoordGet
  \/ CoordProbe
  \/ CoordTransport
  \/ CoordResolved
  \/ CoordRejected
  \/ CoordBackoff
  \/ Notify

SpecCoord == Init /\ [][NextCoord]_vars

\* requests at the background listener, and onInstalled events
NextSettings ==
  \/ BgReceive
  \/ BgStorageSettle
  \/ OnInstalled

SpecSettings == Init /\ [][NextSettings]_vars

\* one Coordinator trigger on a regular page that stays where it is, with
\* requests at the background listener arriving meanwhile
InitNotify ==
  /\ Init
  /\ tab.hasId /\ tab.scriptable /\ tab.status = "complete"
  /\ ~IsRestricted(tab.url)

NextNotify ==
  \/ TransportNoReceiver
  \/ TransportEmpty
  \/ TransportDeliver
  \/ HandlerSettle
  \/ Trigger
  \/ CoordGet
  \/ CoordProbe
  \/ CoordTransport
  \/ CoordResolved
  \/ CoordRejected
  \/ CoordBackoff
  \/ Notify
  \/ BgReceive
  \/ BgStorageSettle

SpecNotify == InitNotify /\ [][NextNotify]_vars

\* a sendMessageToContentScript call and a Coordinator trigger in flight at
\* the same time against one regular page that stays where it is
NextTwo ==
  \/ TransportNoReceiver
  \/ TransportEmpty
  \/ TransportDeliver
  \/ HandlerSettle
  \/ Send
  \/ Query
  \/ EnsureCheck
  \/ EnsureInject
  \/ EnsureSettle
  \/ EnsureVerify
  \/ Transport
  \/ Resolved
  \/ Rejected
  \/ Backoff
  \/ Trigger
  \/ CoordGet
  \/ CoordProbe
  \/ CoordTransport
  \/ CoordResolved
  \/ CoordRejected
  \/ CoordBackoff
  \/ Notify

SpecTwo == InitNotify /\ [][NextTwo]_vars

\* the popup's buttons clicked one after another on a regular page
NextPopup ==
  \/ TransportNoReceiver
  \/ TransportEmpty
  \/ TransportDeliver
  \/ HandlerSettle
  \/ PopupClick
  \/ Query
  \/ EnsureCheck
  \/ EnsureInject
  \/ EnsureSettle
  \/ EnsureVerify
  \/ Transport
  \/ Resolved
  \/ Rejected
  \/ Backoff
  \/ PopupSettle
  \/ PopupTimer

SpecPopup == InitNotify /\ [][NextPopup]_vars

(***************************************************************************)
(* Properties.                                                             *)
(***************************************************************************)
AllRejected(l) == \A i \in 1..Len(l) : l[i] = "rejected"
Mentions(e, a) == \E i \in 1..Len(e) : e[i] = a

\* C1: a transport attempt that yields a Response ends the call at that
\* attempt, and the call returns that Response unchanged, success=false
\* included; no attempt follows it.
C1_ResponseReturnedAsIs ==
  \A i \in 1..Len(log) :
    log[i] = "response" =>
      /\ i = Len(log)
      /\ pc = "done"
      /\ result = lastRx.resp

C1_Witness ==
  /\ pc = "done"
  /\ log = <<"response">>
  /\ result = lastRx.resp
  /\ ~result.success

C4_CoordRestrictedPreflight ==
  (cvariant = "retry" /\ tab.hasId /\ IsRestricted(tab.url) /\ cmsg # "none") =>
     /\ cexecs = 0
     /\ clog = <<>>
     /\ cchan.st = "none"
     /\ (cpc = "done" => notice.message = RestrictedErr.error)

\* C5: the probing Dispatcher makes no transport attempt before its pre-flight
\* ensureContentScriptReady(tab.id) has returned true; when it returns false
\* the call ends with the not-ready error and no transport attempt.
C5_NoTransportBeforeReady ==
  variant = "probing" =>
    /\ (log # <<>> \/ chan.st # "none" \/ pc \in {"send", "await", "sleep"}) =>
         (probes # <<>> /\ ~probes[1].force /\ probes[1].ready)
    /\ (probes # <<>> /\ ~probes[1].ready) =>
         /\ pc = "done"
         /\ result = NotReadyErr
         /\ log = <<>>
         /\ chan.st = "none"

C5_Witness ==
  /\ variant = "probing"
  /\ pc = "done"
  /\ Len(probes) = 1
  /\ ~probes[1].force
  /\ ~probes[1].ready
  /\ result = NotReadyErr
  /\ log = <<>>

C7_Scenario ==
  /\ variant = "probing"
  /\ Len(probes) = 2
  /\ probes[1].ready
  /\ probes[2].force /\ probes[2].ready /\ probes[2].listeners >= 1
  /\ probes[2].navs = navs
  /\ Len(log) >= 2 /\ log[1] = "rejected" /\ log[2] = "rejected"

\* C7: in that scenario the call ends on its 3rd transport attempt, after
\* sleeping 100 and 200 ms, and when that attempt's handler succeeded the call
\* returns the handler's success Response.
C7_ThreeAttempts ==
  (C7_Scenario /\ pc = "done") =>
     /\ Len(log) = 3
     /\ sleeps = <<100, 200>>
     /\ (log[3] = "response" /\ lastRx.outcome = "ok") =>
          (result.success /\ result = lastRx.resp)

C7_Witness ==
  /\ C7_Scenario
  /\ pc = "done"
  /\ log = <<"rejected", "rejected", "response">>
  /\ lastRx.outcome = "ok"
  /\ result.success
  /\ result = ProcessorResult(msg, "ok")

\* C8: a Request that reaches the listener of the flag-keeping content script
\* while AI_DOC_AGENT_LOADED is not true gets the not-ready error, whatever
\* its action, and starts no handler.
C8_NotReadyNoHandler ==
  (env.script = "current" /\ lastRx.action # "none" /\ lastRx.flag # "true") =>
     /\ lastRx.resp = NotReadyResp
     /\ lastRx.ran = 0
     /\ lastRx.outcome = "none"

C8_Witness ==
  /\ env.script = "current"
  /\ lastRx.action = "summarize"
  /\ lastRx.flag = "false"
  /\ lastRx.resp = NotReadyResp
  /\ handlerRuns = 0

ListenerReady == env.script = "earlier" \/ lastRx.flag = "true"

\* C9: a ready listener answers every Request it has finished with a
\* structured Response; when the handler threw or rejected, the Response is
\* {success:false, error:<message of the thrown value>}.
C9_StructuredResponse ==
  (lastRx.action # "none" /\ ListenerReady) =>
     /\ lastRx.outcome # "pending" =>
          /\ lastRx.resp # Null
          /\ lastRx.resp.success \in BOOLEAN
     /\ lastRx.outcome \in {"throwError", "throwEmpty", "throwOther"} =>
          /\ ~lastRx.resp.success
          /\ lastRx.resp.error # Absent
     /\ lastRx.outcome = "throwError" => lastRx.resp.error = <<"handler error">>
     /\ chan.st = "response" => chan.resp = lastRx.resp

C9_Witness ==
  /\ ListenerReady
  /\ lastRx.outcome = "throwError"
  /\ chan.st = "response"
  /\ chan.resp = Err(<<"handler error">>)

\* C10: a ready listener answers a Request whose action is outside the known
\* set with success=false and an error that names the action, and starts no
\* handler.
C10_UnknownAction ==
  (lastRx.action # "none" /\ lastRx.action \notin KnownActions /\ ListenerReady) =>
     /\ lastRx.resp # Null
     /\ ~lastRx.resp.success
     /\ Mentions(lastRx.resp.error, lastRx.action)
     /\ lastRx.ran = 0

C10_Witness ==
  /\ lastRx.action = "bogus"
  /\ ListenerReady
  /\ lastRx.resp = Err(<<"Unknown action: ", "bogus">>)
  /\ lastRx.ran = 0

\* C11: a ping that reaches the ready listener of the flag-keeping content
\* script on the first transport attempt is answered success=true, and the
\* call ends after that one attempt, with no backoff sleep and no forced
\* re-injection.
C11_PingOneAttempt ==
  (pc = "done" /\ msg = "ping" /\ env.script = "current"
     /\ log # <<>> /\ log[1] = "response" /\ lastRx.flag = "true") =>
     /\ result = Ok(<<"Content script is ready">>)
     /\ log = <<"response">>
     /\ sleeps = <<>>
     /\ \A i \in 1..Len(probes) : ~probes[i].force
     /\ handlerRuns = 0

C11_Witness ==
  /\ pc = "done"
  /\ msg = "ping"
  /\ variant = "probing"
  /\ lastRx.flag = "true"
  /\ result.success
  /\ log = <<"response">>
  /\ sleeps = <<>>
  /\ Len(probes) = 1

NonDecreasing(s) == \A i, j \in 1..Len(s) : i <= j => s[i] <= s[j]
AtMost(s, c) == \A i \in 1..Len(s) : s[i] <= c

\* C14: the delays a call has slept are non-decreasing and none exceeds
\* 2000 ms, in the exponential and in the linear Dispatcher; the delays of
\* sendMessageWithRetry (after attempts 1..maxRetries-1) are too.
C14_BackoffMonotoneCapped ==
  /\ NonDecreasing(sleeps)
  /\ AtMost(sleeps, 2000)
  /\ \A n \in 1..(CoordMaxRetries - 1) :
       /\ CoordBackoffMs(n) <= 2000
       /\ n > 1 => CoordBackoffMs(n - 1) <= CoordBackoffMs(n)

C14_Witness ==
  /\ variant = "probing"
  /\ sleeps = <<100, 200, 400, 800>>
  /\ pc = "done"

\* C15 as claimed: against a target whose pre-flight probe fails, the call
\* ends only after maxAttempts units of readiness work (probes, injections or
\* transport attempts).
C15_MaxAttemptsReadinessWork ==
  (pc = "done" /\ variant = "probing" /\ probes # <<>> /\ ~probes[1].ready) =>
     \/ Len(probes) = ProbingMaxAttempts
     \/ injections = ProbingMaxAttempts
     \/ Len(log) = ProbingMaxAttempts

\* C15 as amended: the probing Dispatcher's readiness work is bounded: at most
\* 2 ensureContentScriptReady calls, 2 injections and 5 transport attempts per
\* call; when the pre-flight probe fails the call ends at once with the
\* not-ready error after that single probe, one injection and no transport
\* attempt.
C15_BoundedReadinessWork ==
  variant = "probing" =>
    /\ Len(probes) <= 2
    /\ injections <= 2
    /\ Len(log) <= 5
    /\ (probes # <<>> /\ ~probes[1].ready) =>
         /\ pc = "done"
         /\ Len(probes) = 1
         /\ injections = 1
         /\ log = <<>>
         /\ sleeps = <<>>
         /\ result = NotReadyErr

C15_Witness ==
  /\ variant = "probing"
  /\ pc = "done"
  /\ dtab.scriptable
  /\ Len(probes) = 1
  /\ ~probes[1].ready
  /\ injections = 1
  /\ log = <<>>
  /\ result = NotReadyErr

NonEmptyError(r) ==
  r = Null \/ r.success \/ (r.error # Absent /\ r.error # <<"">>)

C19_ReadyOnlyWhenFlagTrue ==
  \A i \in 1..Len(probes) : probes[i].ready => probes[i].flag = "true"

\* C20: ensureContentScriptReady never throws into the Dispatcher: every call
\* that passed the pre-flight checks got a boolean back, and on a tab where
\* chrome.scripting throws that boolean is false and the call ends with the
\* not-ready error after one injection attempt.
C20_EnsureNeverThrows ==
  (variant = "probing" /\ pc = "done" /\ dtab.hasId /\ dtab.status = "complete"
     /\ ~IsRestricted(dtab.url)) =>
     /\ probes # <<>>
     /\ ~dtab.scriptable =>
          /\ Len(probes) = 1
          /\ ~probes[1].ready
          /\ injections = 1
          /\ result = NotReadyErr

C20_Witness ==
  /\ variant = "probing"
  /\ pc = "done"
  /\ dtab.hasId /\ dtab.status = "complete" /\ ~dtab.scriptable
  /\ ~IsRestricted(dtab.url)
  /\ Len(probes) = 1 /\ ~probes[1].ready
  /\ result = NotReadyErr

\* C16: provided every chrome.* call of the running send eventually settles,
\* a send call that was started ends, and it ends with a Response value:
\* the errors thrown inside the call are returned as {success:false, error}.
C16_SendCompletes ==
  /\ (pc # "idle") ~> (pc = "done")
  /\ [](pc = "done" => (result # Null /\ result.success \in BOOLEAN))

C16_Witness ==
  /\ pc = "done"
  /\ result = LoadingErr
  /\ log = <<>>

\* C12: a saveSettings that succeeds leaves every written key with its new
\* value and every other key of the record with the value it had, and a
\* getSettings that succeeds answers with the record as it then is; so the
\* getSettings that follows a partial write returns the merged record.
C12_SaveMerges ==
  [][/\ (bg.st = "pending" /\ bg.action = "saveSettings"
           /\ bg'.st = "answered" /\ bg'.resp.success) =>
          /\ \A k \in DOMAIN bg.data :
               k \in DOMAIN store' /\ store'[k] = bg.data[k]
          /\ \A k \in DOMAIN store \ DOMAIN bg.data :
               k \in DOMAIN store' /\ store'[k] = store[k]
     /\ (bg.st = "pending" /\ bg.action = "getSettings"
           /\ bg'.st = "answered" /\ bg'.resp.success) =>
          bg'.resp.data = store]_vars

C12_Witness ==
  /\ bg.st = "answered"
  /\ bg.action = "getSettings"
  /\ bg.resp.success
  /\ bg.resp.data.model = "gpt-4"
  /\ bg.resp.data.showNotifications = FALSE
  /\ bg.resp.data.apiKey = "sk-1"
  /\ bg.resp.data.summaryLength = "medium"

\* C13: when showNotification's read of the store resolves, the notification
\* is created exactly when showNotifications was not false at that read,
\* whatever it was when the trigger arrived; and every trigger that got a
\* result went through showNotification.
C13_NotifyTimeGate ==
  /\ shown \in {"created", "suppressed"} => ((shown = "created") <=> atNotify)
  /\ (cpc = "done" /\ notice # NoNotice) => shown # "none"
  /\ notice = NoNotice => shown = "none"

C13_Witness ==
  /\ cpc = "done"
  /\ cresult.resp # Null
  /\ shown = "suppressed"
  /\ atTrigger
  /\ ~atNotify

\* C21 as claimed, for sendMessageWithRetry: as long as every chrome.tabs.get
\* of the call found the tab not ready (no script check and no transport
\* attempt was made), the call has not slept and is not about to sleep.
C21_CoordNotReadyTerminal ==
  (cvariant = "retry" /\ cexecs = 0 /\ clog = <<>>) =>
     /\ cpc # "sleep"
     /\ csleeps = <<>>

Forced == {i \in 1..Len(probes) : probes[i].force}

\* C23: a call of the probing Dispatcher runs the forced
\* ensureContentScriptReady at most once, and only right after the sleep that
\* follows the 2nd rejected transport attempt; the linear Dispatcher never
\* runs it.
C23_ReinjectOnceAtSecond ==
  /\ Cardinality(Forced) <= 1
  /\ Forced # {} => (variant = "probing" /\ Forced = {2} /\ Len(log) >= 2)
  /\ (pc \in {"ens_inject", "ens_settle", "ens_verify"} /\ ens.force) =>
       /\ variant = "probing"
       /\ attempt = 2
       /\ log = <<"rejected", "rejected">>
       /\ sleeps = <<100, 200>>
       /\ Forced = {}

C23_Witness ==
  /\ pc = "done"
  /\ variant = "probing"
  /\ Forced = {2}
  /\ Len(log) = 5
  /\ AllRejected(log)
  /\ injections = 1

\* C27 as claimed: the linear Dispatcher waits 100 ms after its first
\* rejected attempt and 300 ms after its second.
C27_LinearDelays ==
  (variant = "linear" /\ Len(sleeps) = 2) => sleeps = <<100, 300>>

\* C28 as claimed: when sendMessageWithRetry sends its first message to a
\* page that has not navigated, that allows scripts and has a working
\* runtime, its executeScript call has left a listener in the page.
C28_CoordInjectsFirst ==
  (/\ cvariant = "retry" /\ cattempt = 1 /\ cpc = "await" /\ cexecs = 1
   /\ navs = 0 /\ tab.scriptable /\ env.runtime = "ok") =>
     listeners >= 1

\* C29: when the forced ensureContentScriptReady returned false, the call
\* still goes on to its 3rd transport attempt and beyond: it ends only on an
\* attempt that resolved or after the 5th rejected one, never with the
\* not-ready error.
C29_ForcedResultIgnored ==
  (Len(probes) = 2 /\ probes[2].force /\ ~probes[2].ready) =>
     /\ pc # "done" => (pc \in {"send", "await", "sleep"} /\ attempt >= 3)
     /\ pc = "done" =>
          /\ result # NotReadyErr
          /\ Len(log) >= 3
          /\ Len(log) = ProbingMaxAttempts \/ log[Len(log)] # "rejected"

C29_Witness ==
  /\ pc = "done"
  /\ Len(probes) = 2
  /\ probes[2].force
  /\ ~probes[2].ready
  /\ log = <<"rejected", "rejected", "response">>
  /\ result.success

\* C22 as claimed: while the last request the background listener completed
\* is a successful saveSettings, the record still holds every value that
\* request wrote, whatever other events (onInstalled among them) happened
\* since.
C22_OnlySaveChangesRecord ==
  (bg.st = "answered" /\ bg.action = "saveSettings" /\ bg.resp.success) =>
     \A k \in DOMAIN bg.data : k \in DOMAIN store /\ store[k] = bg.data[k]

\* the error texts the background script words itself
BgActionableErrors == {UnknownBgResp.error}

\* C24 as claimed, for the background listener: the error of every Response
\* it sends is one of the script's own texts, never the message of a storage
\* exception.
C24_NoRawExceptionText ==
  (bg.resp # Null /\ ~bg.resp.success) => bg.resp.error \in BgActionableErrors

C25_CallsIndependent ==
  /\ Len(log) <= MaxAttempts(variant)
  /\ pc = "await" => attempt = Len(log) + 1
  /\ pc = "sleep" => (attempt = Len(log) /\ attempt < MaxAttempts(variant))
  /\ Len(clog) <= CoordMaxRetries
  /\ cpc = "await" => (cattempt > Len(clog) /\ cattempt <= CoordMaxRetries)
  /\ cpc = "sleep" => cattempt < CoordMaxRetries
  /\ (pc = "done" /\ log # <<>>) =>
       IF log[Len(log)] = "response"
       THEN lastRx.action = msg /\ result = lastRx.resp
       ELSE IF log[Len(log)] = "empty" THEN result = NoResponseErr
            ELSE Len(log) = MaxAttempts(variant) /\ result = UnableErr(variant)
  /\ (cpc \in {"notify", "done"} /\ clog # <<>>) =>
       IF clog[Len(clog)] = "response"
       THEN /\ rxs["coord"].action = cmsg
            /\ cresult = [threw |-> FALSE, resp |-> rxs["coord"].resp]
       ELSE IF clog[Len(clog)] = "empty"
            THEN cresult = [threw |-> FALSE, resp |-> Null]
            ELSE cresult.threw

C25_Witness ==
  /\ chan.st = "handling"
  /\ cchan.st = "handling"
  /\ chan.action = "summarize"
  /\ cchan.action = "extract-text"
  /\ variant = "probing" /\ attempt = 1
  /\ cvariant = "retry" /\ cattempt = 2 /\ clog = <<"rejected">>

\* C30 as claimed: while an action is processing its 'processing' status is
\* shown, and while the latest action's own timer is pending its result
\* status is shown: no earlier action's timer clears either.
C30_TimerClearsOwnStatusOnly ==
  /\ processing # "none" => (status.type = "processing" /\ status.of = clicks)
  /\ (processing = "none" /\ clicks \in timers) =>
       (status.type \in {"success", "error"} /\ status.of = clicks)

====
